---- MODULE Spec2Model ----
(***************************************************************************)
(* Namespace proofs of the Jellyfish namespaced Merkle tree                *)
(* (merkle_tree/src/namespaced_merkle_tree/proof.rs): NaiveNamespaceProof, *)
(* get_namespace_leaves and verify, over small committed trees.            *)
(***************************************************************************)
EXTENDS Integers, Sequences, FiniteSets, TLC

\* ------------------------------------------------------------------ bounds
MaxLeaves == 3          \* committed trees hold 1..MaxLeaves leaves
MaxNamespace == 3       \* leaf namespaces are 1..MaxNamespace
U64Max == 7             \* scaled-down largest value of the index type u64

\* ------------------------------------------------------------------ values
\* Option<T>: None is the empty sequence, Some(x) the one-element sequence.
None == << >>
Some(x) == << x >>
IsSome(o) == Len(o) = 1
Unwrap(o) == o[1]

Namespaces == 1..MaxNamespace
\* Target namespaces a verifier may be asked about: one below and one above too.
Targets == 0..(MaxNamespace + 1)
Indices == (0..MaxLeaves) \cup {U64Max}

\* id of an element no committed tree holds
Forged == -1

\* The leaf the tree holds at (0-based) index i: its namespace and its payload.
LeafAt(tree, i) == [ns |-> tree[i + 1], id |-> i]

RECURSIVE SortedSeqs(_)
SortedSeqs(n) ==
    IF n = 0 THEN {<< >>}
    ELSE LET shorter == SortedSeqs(n - 1)
         IN  shorter \cup
             {Append(s, x) : s \in {t \in shorter : Len(t) = n - 1}, x \in Namespaces}
\* Leaves are sorted by non-decreasing namespace (the tree builder's invariant).
IsSorted(s) == \A i \in 1..(Len(s) - 1) : s[i] <= s[i + 1]
Trees == {s \in SortedSeqs(MaxLeaves) : Len(s) >= 1 /\ IsSorted(s)}

SetMin(S) == CHOOSE x \in S : \A y \in S : x <= y
SetMax(S) == CHOOSE x \in S : \A y \in S : x >= y

\* NamespacedHash of the root: the digest commits to the whole leaf sequence
\* and carries the extremal namespaces of the leaves.
RootOf(tree) ==
    [digest |-> tree,
     min_namespace |-> SetMin({tree[i] : i \in 1..Len(tree)}),
     max_namespace |-> SetMax({tree[i] : i \in 1..Len(tree)})]

\* Elements a path proof for index i may carry: the tree's leaf at i, or an
\* element the tree does not hold at i (of any namespace).
Elements(tree, i) ==
    (IF i < Len(tree) THEN {LeafAt(tree, i)} ELSE {})
        \cup {[ns |-> n, id |-> Forged] : n \in Namespaces}
ElemOptions(tree, i) == {None} \cup {Some(e) : e \in Elements(tree, i)}

\* MerkleProof: the leaf index, the optional leaf value, and whether the
\* sibling path is structurally well formed.
PathProofs(tree) ==
    UNION {[index : {i}, elem : ElemOptions(tree, i), wf : BOOLEAN] : i \in Indices}
\* The path proof the tree itself produces for its leaf at index i.
HonestProof(tree, i) == [index |-> i, elem |-> Some(LeafAt(tree, i)), wf |-> TRUE]

\* ------------------------------------------------------------------ arithmetic
Panic == "Panic"
\* What an overflowing u64 operation yields in a build with overflow checks.
Overflow == -1
\* u64 addition and subtraction: a build with overflow checks panics, a build
\* without them wraps.
AddU64(a, b, checked) ==
    IF a + b > U64Max
    THEN IF checked THEN Overflow ELSE (a + b) % (U64Max + 1)
    ELSE a + b
SubU64(a, b, checked) ==
    IF a - b < 0
    THEN IF checked THEN Overflow ELSE (a - b) % (U64Max + 1)
    ELSE a - b

\* ------------------------------------------------------------------ verifier
Valid == "Valid"
Invalid == "Invalid"
MalformedProof == "MalformedProof"

\* The path verifier: a structural error for a malformed path, otherwise Valid
\* exactly when the proof is for this index and carries the tree's leaf there.
InnerTreeVerify(root, index, p) ==
    IF ~p.wf THEN MalformedProof
    ELSE IF /\ p.index = index
            /\ index < Len(root.digest)
            /\ p.elem = Some(LeafAt(root.digest, index))
         THEN Valid
         ELSE Invalid

\* verify_left_namespace_boundary
verify_left_namespace_boundary(pf, root, ns, checked) ==
    IF IsSome(pf.left_boundary_proof)
    THEN LET boundary_proof == Unwrap(pf.left_boundary_proof)
         IN  IF ~IsSome(boundary_proof.elem) THEN MalformedProof
             ELSE IF Unwrap(boundary_proof.elem).ns >= ns THEN Invalid
             ELSE LET expected == SubU64(pf.first_index, 1, checked)
                  IN  IF expected = Overflow THEN Panic
                      ELSE IF boundary_proof.index # expected THEN Invalid
                      ELSE InnerTreeVerify(root, boundary_proof.index, boundary_proof)
    ELSE IF root.min_namespace # ns THEN Invalid ELSE Valid

\* verify_right_namespace_boundary
verify_right_namespace_boundary(pf, root, ns, checked) ==
    IF IsSome(pf.right_boundary_proof)
    THEN LET boundary_proof == Unwrap(pf.right_boundary_proof)
         IN  IF ~IsSome(boundary_proof.elem) THEN MalformedProof
             ELSE IF Unwrap(boundary_proof.elem).ns <= ns THEN Invalid
             ELSE LET expected == AddU64(pf.first_index, Len(pf.proofs), checked)
                  IN  IF expected = Overflow THEN Panic
                      ELSE IF boundary_proof.index # expected THEN Invalid
                      ELSE InnerTreeVerify(root, boundary_proof.index, boundary_proof)
    ELSE IF root.max_namespace # ns THEN Invalid ELSE Valid

\* Mutant of verify_absence_proof: the adjacency of the two boundary leaves is
\* not checked.
verify_absence_proof_no_adjacency(pf, root, ns, checked) ==
    IF ns < root.min_namespace \/ ns > root.max_namespace THEN Valid
    ELSE IF ~IsSome(pf.left_boundary_proof) THEN MalformedProof
    ELSE IF ~IsSome(pf.right_boundary_proof) THEN MalformedProof
    ELSE LET left_proof == Unwrap(pf.left_boundary_proof)
             right_proof == Unwrap(pf.right_boundary_proof)
         IN  IF ~IsSome(left_proof.elem) THEN MalformedProof
             ELSE IF ~IsSome(right_proof.elem) THEN MalformedProof
             ELSE LET left_ns == Unwrap(left_proof.elem).ns
                      right_ns == Unwrap(right_proof.elem).ns
                      left_ok == InnerTreeVerify(root, left_proof.index, left_proof)
                      right_ok == InnerTreeVerify(root, right_proof.index, right_proof)
                  IN  IF ns <= left_ns \/ ns >= right_ns THEN Invalid
                      ELSE IF left_ok = MalformedProof THEN MalformedProof
                      ELSE IF left_ok = Invalid THEN Invalid
                      ELSE right_ok

\* Mutant of verify_absence_proof: the right index is compared with the left
\* index instead of the left index plus one.
verify_absence_proof_same_index(pf, root, ns, checked) ==
    IF ns < root.min_namespace \/ ns > root.max_namespace THEN Valid
    ELSE IF ~IsSome(pf.left_boundary_proof) THEN MalformedProof
    ELSE IF ~IsSome(pf.right_boundary_proof) THEN MalformedProof
    ELSE LET left_proof == Unwrap(pf.left_boundary_proof)
             right_proof == Unwrap(pf.right_boundary_proof)
         IN  IF ~IsSome(left_proof.elem) THEN MalformedProof
             ELSE IF ~IsSome(right_proof.elem) THEN MalformedProof
             ELSE LET left_ns == Unwrap(left_proof.elem).ns
                      right_ns == Unwrap(right_proof.elem).ns
                      left_ok == InnerTreeVerify(root, left_proof.index, left_proof)
                      right_ok == InnerTreeVerify(root, right_proof.index, right_proof)
                  IN  IF right_proof.index # left_proof.index THEN Invalid
                      ELSE IF ns <= left_ns \/ ns >= right_ns THEN Invalid
                      ELSE IF left_ok = MalformedProof THEN MalformedProof
                      ELSE IF left_ok = Invalid THEN Invalid
                      ELSE right_ok

\* verify_absence_proof
verify_absence_proof(pf, root, ns, checked) ==
    IF ns < root.min_namespace \/ ns > root.max_namespace THEN Valid
    ELSE IF ~IsSome(pf.left_boundary_proof) THEN MalformedProof
    ELSE IF ~IsSome(pf.right_boundary_proof) THEN MalformedProof
    ELSE LET left_proof == Unwrap(pf.left_boundary_proof)
             right_proof == Unwrap(pf.right_boundary_proof)
         IN  IF ~IsSome(left_proof.elem) THEN MalformedProof
             ELSE IF ~IsSome(right_proof.elem) THEN MalformedProof
             ELSE LET left_ns == Unwrap(left_proof.elem).ns
                      right_ns == Unwrap(right_proof.elem).ns
                      next_index == AddU64(left_proof.index, 1, checked)
                      left_ok == InnerTreeVerify(root, left_proof.index, left_proof)
                      right_ok == InnerTreeVerify(root, right_proof.index, right_proof)
                  IN  IF next_index = Overflow THEN Panic
                      ELSE IF right_proof.index # next_index THEN Invalid
                      ELSE IF ns <= left_ns \/ ns >= right_ns THEN Invalid
                      ELSE IF left_ok = MalformedProof THEN MalformedProof
                      ELSE IF left_ok = Invalid THEN Invalid
                      ELSE right_ok

Continue == "Continue"
\* Mutant of presence_iteration: the entry is verified at index i, without
\* first_index.
presence_iteration_absolute_index(pf, root, ns, i, last, checked) ==
    LET path == pf.proofs[i + 1]
        leaf_index == i
        ok == InnerTreeVerify(root, leaf_index, path)
        stop(r) == [result |-> r, last_idx |-> last]
    IN  IF ok = MalformedProof THEN stop(MalformedProof)
        ELSE IF ok = Invalid THEN stop(Invalid)
        ELSE IF ~IsSome(path.elem) THEN stop(MalformedProof)
        ELSE IF Unwrap(path.elem).ns # ns THEN stop(Invalid)
        ELSE IF IsSome(last)
             THEN LET next_index == AddU64(Unwrap(last), 1, checked)
                  IN  IF next_index = Overflow THEN stop(Panic)
                      ELSE IF leaf_index # next_index THEN stop(Invalid)
                      ELSE [result |-> Continue, last_idx |-> Some(leaf_index)]
             ELSE [result |-> Continue, last_idx |-> last]

\* Mutant of presence_iteration: last_idx is updated after the branch, so it
\* holds the previous index from the second entry on.
presence_iteration_tracking(pf, root, ns, i, last, checked) ==
    LET path == pf.proofs[i + 1]
        leaf_index == AddU64(pf.first_index, i, checked)
        ok == InnerTreeVerify(root, leaf_index, path)
        stop(r) == [result |-> r, last_idx |-> last]
    IN  IF leaf_index = Overflow THEN stop(Panic)
        ELSE IF ok = MalformedProof THEN stop(MalformedProof)
        ELSE IF ok = Invalid THEN stop(Invalid)
        ELSE IF ~IsSome(path.elem) THEN stop(MalformedProof)
        ELSE IF Unwrap(path.elem).ns # ns THEN stop(Invalid)
        ELSE IF IsSome(last)
             THEN LET next_index == AddU64(Unwrap(last), 1, checked)
                  IN  IF next_index = Overflow THEN stop(Panic)
                      ELSE IF leaf_index # next_index THEN stop(Invalid)
                      ELSE [result |-> Continue, last_idx |-> Some(leaf_index)]
             ELSE [result |-> Continue, last_idx |-> Some(leaf_index)]

\* One iteration of the loop of verify_presence_proof, for the entry at
\* (0-based) position i: the result it returns, or Continue, and last_idx after.
presence_iteration(pf, root, ns, i, last, checked) ==
    LET path == pf.proofs[i + 1]
        leaf_index == AddU64(pf.first_index, i, checked)
        ok == InnerTreeVerify(root, leaf_index, path)
        stop(r) == [result |-> r, last_idx |-> last]
    IN  IF leaf_index = Overflow THEN stop(Panic)
        ELSE IF ok = MalformedProof THEN stop(MalformedProof)
        ELSE IF ok = Invalid THEN stop(Invalid)
        ELSE IF ~IsSome(path.elem) THEN stop(MalformedProof)
        ELSE IF Unwrap(path.elem).ns # ns THEN stop(Invalid)
        ELSE IF IsSome(last)
             THEN LET next_index == AddU64(Unwrap(last), 1, checked)
                  IN  IF next_index = Overflow THEN stop(Panic)
                      ELSE IF leaf_index # next_index THEN stop(Invalid)
                      ELSE [result |-> Continue, last_idx |-> Some(leaf_index)]
             ELSE [result |-> Continue, last_idx |-> last]

\* The tail of verify_presence_proof: a boundary check counts as failed only
\* when its outer Result is an error (is_err), and that is reported as Invalid.
presence_boundaries(pf, root, ns, checked) ==
    LET left == verify_left_namespace_boundary(pf, root, ns, checked)
        right == verify_right_namespace_boundary(pf, root, ns, checked)
    IN  IF left = Panic THEN Panic
        ELSE IF left = MalformedProof THEN Invalid
        ELSE IF right = Panic THEN Panic
        ELSE IF right = MalformedProof THEN Invalid
        ELSE Valid

\* get_namespace_leaves: unwraps the element of every entry it takes.
NotCalled == "NotCalled"
Returned == "Returned"
get_namespace_leaves(pf) ==
    LET num_leaves == IF pf.proof_type = "Presence" THEN Len(pf.proofs) ELSE 0
    IN  IF \E i \in 1..num_leaves : ~IsSome(pf.proofs[i].elem)
        THEN [status |-> Panic, value |-> << >>]
        ELSE [status |-> Returned,
              value |-> [i \in 1..num_leaves |-> Unwrap(pf.proofs[i].elem)]]

\* ------------------------------------------------------------------ proofs
\* Option<MerkleProof>: any boundary proof at all, or only what the tree gives
\* for index i (nothing when the tree has no leaf there).
BoundaryOptions(tree) == {None} \cup {Some(p) : p \in PathProofs(tree)}
HonestBoundary(tree, i) ==
    IF i \in 0..(Len(tree) - 1) THEN Some(HonestProof(tree, i)) ELSE None

NaiveNamespaceProof(type, proofs, left, right, first) ==
    [proof_type |-> type, proofs |-> proofs, left_boundary_proof |-> left,
     right_boundary_proof |-> right, first_index |-> first]

\* Absence proofs: both boundary proofs are whatever the sender chose.
AbsenceProofs(tree) ==
    {NaiveNamespaceProof("Absence", << >>, l, r, 0) :
        l \in BoundaryOptions(tree), r \in BoundaryOptions(tree)}

\* The path proofs of the k leaves from index first on.
HonestRun(tree, first, k) == [j \in 1..k |-> HonestProof(tree, first + j - 1)]
\* (first, k): a run of k leaves of the tree; empty runs start anywhere.
Runs(tree) ==
    {<<f, k>> \in (0..Len(tree)) \X (0..Len(tree)) : f + k <= Len(tree)}
\* Presence proofs: a run of the tree's own path proofs with the tree's own
\* neighbours as boundaries, in which the sender replaced at most one part
\* freely: one entry of the list, a boundary proof, or first_index.
PresenceProofs(tree) ==
    LET honest ==
            {NaiveNamespaceProof("Presence", HonestRun(tree, rk[1], rk[2]),
                                 HonestBoundary(tree, rk[1] - 1),
                                 HonestBoundary(tree, rk[1] + rk[2]), rk[1]) :
                rk \in Runs(tree)}
    IN  UNION {
          {[pf EXCEPT !.proofs[j] = p] :
              j \in 1..Len(pf.proofs), p \in PathProofs(tree)}
          \cup {[pf EXCEPT !.left_boundary_proof = b] : b \in BoundaryOptions(tree)}
          \cup {[pf EXCEPT !.right_boundary_proof = b] : b \in BoundaryOptions(tree)}
          \cup {[pf EXCEPT !.first_index = f] : f \in Indices}
          : pf \in honest}

\* ------------------------------------------------------------------ state
VARIABLES
    root,        \* the committed root the proof is verified against
    namespace,   \* the target namespace
    proof,       \* the NaiveNamespaceProof under verification
    pc,          \* "start" (verify called), "loop" (in verify_presence_proof),
                 \* "done" (verify returned), "end" (leaves read)
    idx,         \* position of the presence loop in proof.proofs (0-based)
    last_idx,    \* the local last_idx of verify_presence_proof
    result,      \* what verify returned (Running before it returns)
    leaves       \* what get_namespace_leaves returned

vars == <<root, namespace, proof, pc, idx, last_idx, result, leaves>>

Running == "Running"

InitCall ==
    /\ namespace \in Targets
    /\ idx = 0
    /\ last_idx = None
    /\ result = Running
    /\ leaves = [status |-> NotCalled, value |-> << >>]

\* verify is about to be called on an Absence proof.
InitAbsence ==
    /\ \E tree \in Trees :
          /\ root = RootOf(tree)
          /\ proof \in AbsenceProofs(tree)
    /\ pc = "start"
    /\ InitCall

\* verify was called on a Presence proof and stands at the head of the loop of
\* verify_presence_proof, last_idx just initialised.
InitPresence ==
    /\ \E tree \in Trees :
          /\ root = RootOf(tree)
          /\ proof \in PresenceProofs(tree)
    /\ pc = "loop"
    /\ InitCall

\* verify on an Absence proof.
VerifyAbsence ==
    /\ pc = "start"
    /\ proof.proof_type = "Absence"
    /\ \E checked \in BOOLEAN :
          result' = verify_absence_proof(proof, root, namespace, checked)
    /\ pc' = "done"
    /\ UNCHANGED <<root, namespace, proof, idx, last_idx, leaves>>

\* One iteration of the loop over proof.proofs.
PresenceLoop ==
    /\ pc = "loop"
    /\ idx < Len(proof.proofs)
    /\ \E checked \in BOOLEAN :
          LET step == presence_iteration(proof, root, namespace, idx, last_idx, checked)
          IN  /\ last_idx' = step.last_idx
              /\ IF step.result = Continue
                 THEN /\ idx' = idx + 1
                      /\ UNCHANGED <<pc, result>>
                 ELSE /\ result' = step.result
                      /\ pc' = "done"
                      /\ UNCHANGED idx
    /\ UNCHANGED <<root, namespace, proof, leaves>>

\* After the loop: the two boundary checks and the final result.
PresenceBoundaries ==
    /\ pc = "loop"
    /\ idx = Len(proof.proofs)
    /\ \E checked \in BOOLEAN :
          result' = presence_boundaries(proof, root, namespace, checked)
    /\ pc' = "done"
    /\ UNCHANGED <<root, namespace, proof, idx, last_idx, leaves>>

\* The caller reads the leaves out of the proof once verify has returned.
GetNamespaceLeaves ==
    /\ pc = "done"
    /\ leaves' = get_namespace_leaves(proof)
    /\ pc' = "end"
    /\ UNCHANGED <<root, namespace, proof, idx, last_idx, result>>

NextAbsence == VerifyAbsence
NextPresence == PresenceLoop \/ PresenceBoundaries \/ GetNamespaceLeaves

SpecAbsence == InitAbsence /\ [][NextAbsence]_vars
SpecPresence == InitPresence /\ [][NextPresence]_vars

\* ------------------------------------------------------------------ properties
Tree == root.digest
Finished == pc \in {"done", "end"}
IsPresence == proof.proof_type = "Presence"
IsAbsence == proof.proof_type = "Absence"

\* All leaves of the tree with namespace n, in index order.
NamespaceLeavesOf(tree, n) ==
    SelectSeq([i \in 1..Len(tree) |-> LeafAt(tree, i - 1)], LAMBDA e : e.ns = n)
HasNamespace(tree, n) == \E i \in 1..Len(tree) : tree[i] = n
FirstIndexOf(tree, n) ==
    SetMin({i \in 0..(Len(tree) - 1) : tree[i + 1] = n})

\* The presence proof a correct prover builds for a namespace n of the tree.
CorrectPresenceProof(tree, n) ==
    LET first == FirstIndexOf(tree, n)
        k == Len(NamespaceLeavesOf(tree, n))
    IN  NaiveNamespaceProof("Presence", HonestRun(tree, first, k),
                            HonestBoundary(tree, first - 1),
                            HonestBoundary(tree, first + k), first)

\* The absence proofs a correct prover builds for a namespace n not in the tree:
\* no boundaries outside the root's range, the bracketing neighbours inside it.
CorrectAbsenceProofs(tree, n) ==
    IF n < RootOf(tree).min_namespace \/ n > RootOf(tree).max_namespace
    THEN {NaiveNamespaceProof("Absence", << >>, None, None, 0)}
    ELSE {NaiveNamespaceProof("Absence", << >>, HonestBoundary(tree, i),
                              HonestBoundary(tree, i + 1), 0) :
            i \in {j \in 0..(Len(tree) - 2) : tree[j + 1] < n /\ n < tree[j + 2]}}

\* The presence loop accepted every entry of proof.proofs.
LoopPassed == IsPresence /\ Finished /\ idx = Len(proof.proofs)

\* C1 (as claimed): whenever verify returns Valid on a Presence proof,
\* get_namespace_leaves returns exactly all leaves of the target namespace, in
\* index order.
C1_PresenceSoundness ==
    (IsPresence /\ pc = "end" /\ result = Valid) =>
        /\ leaves.status = Returned
        /\ leaves.value = NamespaceLeavesOf(Tree, namespace)

\* C2: whenever verify returns Valid on an Absence proof, no leaf of the tree
\* has the target namespace.
C2_AbsenceSoundness ==
    (IsAbsence /\ Finished /\ result = Valid) => ~HasNamespace(Tree, namespace)
\* A gap proof for a target inside the root's range was accepted.
C2_Witness ==
    /\ IsAbsence /\ pc = "done" /\ result = Valid
    /\ root.min_namespace < namespace /\ namespace < root.max_namespace

\* C3: the correctly constructed presence proof of a namespace of the tree
\* verifies Valid, and get_namespace_leaves returns exactly that namespace's
\* leaves in index order.
C3_PresenceRoundTrip ==
    (/\ HasNamespace(Tree, namespace)
     /\ proof = CorrectPresenceProof(Tree, namespace)) =>
        /\ Finished => result = Valid
        /\ pc = "end" =>
              /\ leaves.status = Returned
              /\ leaves.value = NamespaceLeavesOf(Tree, namespace)
\* A correct proof of two leaves that end the tree, with a left neighbour, was
\* verified and read.
C3_Witness ==
    /\ HasNamespace(Tree, namespace)
    /\ proof = CorrectPresenceProof(Tree, namespace)
    /\ pc = "end" /\ result = Valid
    /\ Len(leaves.value) = 2
    /\ IsSome(proof.left_boundary_proof)
    /\ ~IsSome(proof.right_boundary_proof)

\* C4: a correctly constructed absence proof of a namespace no leaf carries
\* verifies Valid, outside the root's range and in a gap inside it.
C4_AbsenceCorrectness ==
    (/\ ~HasNamespace(Tree, namespace)
     /\ proof \in CorrectAbsenceProofs(Tree, namespace)
     /\ Finished) => result = Valid
\* The gap case: both neighbours supplied, target strictly inside the range.
C4_Witness ==
    /\ ~HasNamespace(Tree, namespace)
    /\ proof \in CorrectAbsenceProofs(Tree, namespace)
    /\ pc = "done" /\ result = Valid
    /\ IsSome(proof.left_boundary_proof) /\ IsSome(proof.right_boundary_proof)

\* A boundary proof that is absent, or present with its leaf value and a well
\* formed path: its check reports no structural error.
Evaluable(b) == IsSome(b) => (IsSome(Unwrap(b).elem) /\ Unwrap(b).wf)
LeftBoundaryFails ==
    LET b == proof.left_boundary_proof
    IN  IF IsSome(b)
        THEN \/ Unwrap(Unwrap(b).elem).ns >= namespace
             \/ Unwrap(b).index # proof.first_index - 1
             \/ InnerTreeVerify(root, Unwrap(b).index, Unwrap(b)) = Invalid
        ELSE namespace # root.min_namespace
RightBoundaryFails ==
    LET b == proof.right_boundary_proof
    IN  IF IsSome(b)
        THEN \/ Unwrap(Unwrap(b).elem).ns <= namespace
             \/ Unwrap(b).index # proof.first_index + Len(proof.proofs)
             \/ InnerTreeVerify(root, Unwrap(b).index, Unwrap(b)) = Invalid
        ELSE namespace # root.max_namespace

\* C5 (as claimed): on a Presence proof whose per-leaf checks all pass, verify
\* returns Invalid whenever the left or the right boundary check fails.
C5_BoundaryPropagation ==
    (/\ LoopPassed
     /\ Evaluable(proof.left_boundary_proof)
     /\ Evaluable(proof.right_boundary_proof)
     /\ LeftBoundaryFails \/ RightBoundaryFails) => result = Invalid

\* C6 (as claimed): a boundary proof lacking its leaf value, or a structural
\* error of the path verifier on a boundary proof, makes verify return
\* MalformedProof: on a Presence proof once the per-leaf checks passed, on an
\* Absence proof when the target lies within the root's range.
C6_StructuralChannel ==
    LET l == proof.left_boundary_proof
        r == proof.right_boundary_proof
        inRange == root.min_namespace <= namespace /\ namespace <= root.max_namespace
    IN  /\ (LoopPassed /\ IsSome(l) /\ ~IsSome(Unwrap(l).elem)) =>
              result = MalformedProof
        /\ (LoopPassed /\ IsSome(l) /\ IsSome(Unwrap(l).elem) /\ ~Unwrap(l).wf
                /\ Unwrap(Unwrap(l).elem).ns < namespace
                /\ proof.first_index >= 1
                /\ Unwrap(l).index = proof.first_index - 1) =>
              result = MalformedProof
        /\ (IsAbsence /\ Finished /\ inRange /\ IsSome(l) /\ IsSome(r)
                /\ (~IsSome(Unwrap(l).elem) \/ ~IsSome(Unwrap(r).elem))) =>
              result = MalformedProof

\* C7 (as claimed): verify always ends Valid, Invalid or MalformedProof, never
\* in a panic of index arithmetic; a Presence proof with first_index = 0 and a
\* left boundary leaf below the target is rejected as a structural error.
C7_NoPanic ==
    Finished =>
        /\ result \in {Valid, Invalid, MalformedProof}
        /\ (/\ LoopPassed
            /\ proof.first_index = 0
            /\ IsSome(proof.left_boundary_proof)
            /\ IsSome(Unwrap(proof.left_boundary_proof).elem)
            /\ Unwrap(Unwrap(proof.left_boundary_proof).elem).ns < namespace) =>
                result = MalformedProof

\* C8 (as claimed): get_namespace_leaves on a Presence proof with an entry
\* lacking its leaf element reports a malformed-input error.
C8_MissingElementReported ==
    (/\ IsPresence
     /\ pc = "end"
     /\ \E i \in 1..Len(proof.proofs) : ~IsSome(proof.proofs[i].elem)) =>
        leaves.status = MalformedProof

\* The verdict C9 states for an Absence proof and a target within the range.
AbsenceVerdict ==
    LET l == proof.left_boundary_proof
        r == proof.right_boundary_proof
    IN  IF \/ ~IsSome(l) \/ ~IsSome(r)
           \/ ~IsSome(Unwrap(l).elem) \/ ~IsSome(Unwrap(r).elem)
        THEN MalformedProof
        ELSE IF \/ Unwrap(r).index # Unwrap(l).index + 1
                \/ ~(/\ Unwrap(Unwrap(l).elem).ns < namespace
                     /\ namespace < Unwrap(Unwrap(r).elem).ns)
                \/ InnerTreeVerify(root, Unwrap(l).index, Unwrap(l)) # Valid
                \/ InnerTreeVerify(root, Unwrap(r).index, Unwrap(r)) # Valid
             THEN Invalid
             ELSE Valid
\* The path verifier reports no structural error on either boundary proof.
NoPathError ==
    /\ IsSome(proof.left_boundary_proof) => Unwrap(proof.left_boundary_proof).wf
    /\ IsSome(proof.right_boundary_proof) => Unwrap(proof.right_boundary_proof).wf

\* C9 (as claimed): for an Absence proof and a target within the root's range,
\* verify returns MalformedProof exactly when a boundary proof is missing or
\* lacks its leaf value, otherwise Invalid exactly when the indices are not
\* adjacent, the namespaces do not bracket the target or a path fails, and
\* otherwise Valid.
C9_AbsenceVerdict ==
    (/\ IsAbsence /\ Finished /\ NoPathError
     /\ root.min_namespace <= namespace /\ namespace <= root.max_namespace) =>
        result = AbsenceVerdict

\* C10: last_idx is unset at the start of every iteration of the presence
\* loop, at loop exit and ever after, so the contiguity comparison is never
\* evaluated.
C10_DormantContiguity == IsPresence => last_idx = None
\* The loop has accepted two entries and stands at its exit.
C10_Witness ==
    /\ IsPresence /\ pc = "loop"
    /\ idx = Len(proof.proofs) /\ idx >= 2
    /\ last_idx = None

====
